---- MODULE Spec2Model ----
(***************************************************************************)
(* AppBazaar backend: the auction lifecycle (routes/auctions.js over       *)
(* models/Auction.js), the payment lifecycle (routes/payments.js over      *)
(* models/Payment.js) and the Express middleware chain in front of the     *)
(* auction routes (middleware/auth.js).                                    *)
(*                                                                         *)
(* Spec      the auction route handlers, called with the request bodies a  *)
(*           client of the documented API sends (validated fields only).   *)
(* SpecBody  the same handlers, with request bodies that also carry the    *)
(*           schema fields status and bids, which create and update pass   *)
(*           to the model unfiltered.                                      *)
(*                                                                         *)
(* SpecPay   the payment route handlers create-order and verify.           *)
(* SpecRefund the payment route handlers create-order, verify and refund,  *)
(*           the first two as the checkout page calls them: one account,   *)
(*           the gateway's own payment id and signature.                   *)
(* SpecShop  create-order and verify next to the app catalogue's purchase  *)
(*           route (routes/apps.js).                                       *)
(* SpecViews, SpecRace, SpecVerifyRace  requests that overlap: each takes  *)
(*           its document from the store in one step and runs the rest of  *)
(*           its handler, save included, in a later one. SpecViews has the *)
(*           read-by-id route, SpecRace the bid and accept routes,         *)
(*           SpecVerifyRace the verify route.                              *)
(* SpecHttp  one request at a time travelling through the middleware stack *)
(*           its route was registered with, the handler being the last     *)
(*           element of the stack.                                         *)
(*                                                                         *)
(* Mongoose 6+ array semantics are assumed: an assignment to an index of a *)
(* document array casts the value to a new sub-document.                   *)
(***************************************************************************)
EXTENDS Integers, Sequences, FiniteSets, TLC

VARIABLES auction, nextBidId, now, res, req, payments, gatewayOrders, purchases, downloads,
          gatewayRefunds, flights, views, version

vars == <<auction, nextBidId, now, res, req, payments, gatewayOrders, purchases, downloads,
          gatewayRefunds, flights, views, version>>

auctionVars == <<auction, nextBidId>>
payVars == <<payments, gatewayOrders, purchases, downloads, gatewayRefunds>>
\* requests between their read and their write, the stored view counter and
\* the stored version key (__v) of the auction
raceVars == <<flights, views, version>>

(* ------------------------------ bounds --------------------------------- *)
MaxBidIds == 2
MaxTime == 2
MaxBodyBids == 2
MaxOrders == 2
MaxRefunds == 2
MaxFlights == 4

(* ------------------------------ domains -------------------------------- *)
Users == {"u1", "u2", "u3"}
\* the listed items
Apps == {"a1"}
\* the accounts that create auctions
Buyers == {"u1"}
\* req.user.role of the accounts
Admins == {"u3"}

role(u) == IF u \in Admins THEN "admin" ELSE "user"

Absent == "absent"
NoDate == -1
NoAuction == [exists |-> FALSE]
NoRes == [op |-> "none"]
NoReq == [route |-> "none", scheduled |-> FALSE]
\* a request slot no request has used yet
Idle == [pc |-> "idle"]
\* the calls of razorpay.payments.refund made for one payment record, and
\* those of them that the gateway carried out
NoRefundCalls == [calls |-> 0, refunded |-> 0]

AuctionStatuses == {"open", "in-progress", "completed", "cancelled"}
BidStatuses == {"pending", "accepted", "rejected"}

Times == 0..MaxTime

\* request bodies of POST /:id/bid
BidInputs ==
    { [amount |-> 300, proposal |-> "p1", timeline |-> 14],
      [amount |-> 250, proposal |-> "p2", timeline |-> 10],
      [amount |-> 250, proposal |-> "p2", timeline |-> 0] }

\* validateBid: amount >= 0, timeline in 1..365 (the proposals above have a
\* valid length)
validateBid(inp) == inp.amount >= 0 /\ inp.timeline >= 1 /\ inp.timeline <= 365

(* --------------------------- Auction model ----------------------------- *)
\* virtual isExpired
isExpired(a, t) == a.expiresAt < t

\* methods.isOpen
isOpen(a, t) == a.status = "open" /\ ~isExpired(a, t)

\* bids.findIndex(bid => bid.developer == developer); 0 stands for -1
RECURSIVE findIndexFrom(_, _, _)
findIndexFrom(bids, developer, i) ==
    IF i > Len(bids) THEN 0
    ELSE IF bids[i].developer = developer THEN i
    ELSE findIndexFrom(bids, developer, i + 1)

\* mutant: the developer's existing bid is never found
findIndex_Never(bids, developer) == 0

findIndex(bids, developer) == findIndexFrom(bids, developer, 1)

\* a sub-document built from plain data: _id generated, status defaulted
newBid(id, bidData, t) ==
    [id |-> id, developer |-> bidData.developer, amount |-> bidData.amount,
     proposal |-> bidData.proposal, timeline |-> bidData.timeline,
     status |-> "pending", submittedAt |-> t]

\* mutant: the spread is written the other way round, so the stored bid wins
addBidBids_KeepOld(bids, bidData, id, t) ==
    LET existingBidIndex == findIndex(bids, bidData.developer) IN
    IF existingBidIndex # 0
    THEN [bids EXCEPT ![existingBidIndex].submittedAt = t]
    ELSE Append(bids, newBid(id, bidData, t))

\* methods.addBid, after the isOpen check: the bids array it saves
addBidBids(bids, bidData, id, t) ==
    LET existingBidIndex == findIndex(bids, bidData.developer) IN
    IF existingBidIndex # 0
    THEN [bids EXCEPT ![existingBidIndex] = newBid(id, bidData, t)]
    ELSE Append(bids, newBid(id, bidData, t))

\* bids.id(bidId): index of the first sub-document with that _id, 0 for null
RECURSIVE bidsIdFrom(_, _, _)
bidsIdFrom(bids, bidId, i) ==
    IF i > Len(bids) THEN 0
    ELSE IF bids[i].id = bidId THEN i
    ELSE bidsIdFrom(bids, bidId, i + 1)

bidsId(bids, bidId) == bidsIdFrom(bids, bidId, 1)

\* mutant: the auction's status is left as it is
acceptBidDoc_StaysOpen(a, bidId) ==
    LET k == bidsId(a.bids, bidId)
        rejected == [i \in 1..Len(a.bids) |->
                        IF a.bids[i].id # bidId
                        THEN [a.bids[i] EXCEPT !.status = "rejected"]
                        ELSE a.bids[i]]
    IN [a EXCEPT !.bids = [rejected EXCEPT ![k].status = "accepted"],
                 !.acceptedBid = a.bids[k].developer]

\* mutant: the other bids are left as they are
acceptBidDoc_KeepOthers(a, bidId) ==
    LET k == bidsId(a.bids, bidId)
    IN [a EXCEPT !.bids = [a.bids EXCEPT ![k].status = "accepted"],
                 !.acceptedBid = a.bids[k].developer,
                 !.status = "in-progress"]

\* methods.acceptBid, after its two checks: the document it saves
acceptBidDoc(a, bidId) ==
    LET k == bidsId(a.bids, bidId)
        rejected == [i \in 1..Len(a.bids) |->
                        IF a.bids[i].id # bidId
                        THEN [a.bids[i] EXCEPT !.status = "rejected"]
                        ELSE a.bids[i]]
    IN [a EXCEPT !.bids = [rejected EXCEPT ![k].status = "accepted"],
                 !.acceptedBid = a.bids[k].developer,
                 !.status = "in-progress"]

\* schema validation of the document on save: expiresAt is required
validateDoc(a) == a.expiresAt # NoDate

\* pre('save') hook (it runs after the built-in validation hook)
DefaultExpiryDelay == 30

preSave(a, t) ==
    IF a.expiresAt = NoDate THEN [a EXCEPT !.expiresAt = t + DefaultExpiryDelay] ELSE a

\* the bids of a request body cast to sub-documents; _ids from firstId on
castBids(bodyBids, firstId, t) ==
    [i \in 1..Len(bodyBids) |->
        [newBid(firstId + i - 1, bodyBids[i], t) EXCEPT !.status = bodyBids[i].status]]

\* a JSON boolean of a request body cast to the schema's Boolean
castBoolean(v) == v = "true"

\* new Auction({...req.body, buyer}): schema defaults for what the body omits
newAuction(body, buyer, firstId, t) ==
    [exists |-> TRUE,
     buyer |-> buyer,
     status |-> IF body.status = Absent THEN "open" ELSE body.status,
     bids |-> IF ~body.hasBids THEN <<>> ELSE castBids(body.bids, firstId, t),
     acceptedBid |-> Absent,
     isActive |-> IF body.isActive = Absent THEN TRUE ELSE castBoolean(body.isActive),
     expiresAt |-> body.expiresAt]

\* findByIdAndUpdate(id, req.body): the fields the body carries are set
updatedAuction(a, body, firstId, t) ==
    [a EXCEPT !.status = IF body.status = Absent THEN @ ELSE body.status,
              !.bids = IF ~body.hasBids THEN @ ELSE castBids(body.bids, firstId, t),
              !.isActive = IF body.isActive = Absent THEN @ ELSE castBoolean(body.isActive),
              !.expiresAt = IF body.expiresAt = NoDate THEN @ ELSE body.expiresAt]

bodyBidCount(body) == IF ~body.hasBids THEN 0 ELSE Len(body.bids)

(* --------------------------- request bodies ---------------------------- *)
ExpiryInputs == {1, NoDate}

\* the fields a client of the documented API sends
PlainBodies ==
    [expiresAt : ExpiryInputs, status : {Absent}, isActive : {Absent},
     hasBids : {FALSE}, bids : {<<>>}]

\* bids of a request body, in the name of another account
BodyBids ==
    [developer : {"u2"}, amount : {300}, proposal : {"p1"}, timeline : {14},
     status : {"pending", "accepted"}]

\* a bid of a request body in the sender's own name
OwnBodyBids ==
    [developer : Buyers, amount : {300}, proposal : {"p1"}, timeline : {14},
     status : {"pending"}]

BodyBidLists ==
    UNION { [1..n -> BodyBids] : n \in 1..MaxBodyBids }
    \cup { <<b>> : b \in OwnBodyBids }

\* any field of the schema may come with the body
RawBodies ==
    [expiresAt : ExpiryInputs, status : AuctionStatuses \cup {Absent},
     isActive : {Absent}, hasBids : {FALSE}, bids : {<<>>}]
    \cup
    [expiresAt : ExpiryInputs, status : {Absent},
     isActive : {Absent}, hasBids : {TRUE}, bids : BodyBidLists]
    \cup
    [expiresAt : ExpiryInputs, status : {Absent},
     isActive : {"false"}, hasBids : {FALSE}, bids : {<<>>}]

(* ------------------------------ responses ------------------------------ *)
Response(op, user, arg, code, msg) ==
    [op |-> op, user |-> user, arg |-> arg, code |-> code, msg |-> msg]

\* a response sent from a catch block, with the error console.error logged:
\* the save() that rejected
Logged(r, error) ==
    [op |-> r.op, user |-> r.user, arg |-> r.arg, code |-> r.code, msg |-> r.msg,
     error |-> error]

(* ------------------------------- Init ---------------------------------- *)
Init ==
    /\ auction = NoAuction
    /\ nextBidId = 1
    /\ now = 0
    /\ res = NoRes
    /\ req = NoReq
    /\ payments = <<>>
    /\ gatewayOrders = 0
    /\ purchases = [u \in Users |-> <<>>]
    /\ downloads = [a \in Apps |-> 0]
    /\ gatewayRefunds = [k \in 1..MaxOrders |-> NoRefundCalls]
    /\ flights = [i \in 1..MaxFlights |-> Idle]
    /\ views = 0
    /\ version = 0

(* ------------------------- route handlers ------------------------------ *)
\* POST /api/auctions
Create(u, body) ==
    /\ auction = NoAuction
    /\ nextBidId + bodyBidCount(body) <= MaxBidIds + 1
    /\ LET doc == newAuction(body, u, nextBidId, now) IN
       IF ~validateDoc(doc)
       THEN /\ res' = Response("create", u, body.expiresAt, 500, "Server error")
            /\ UNCHANGED <<auction, nextBidId>>
       ELSE /\ auction' = preSave(doc, now)
            /\ nextBidId' = nextBidId + bodyBidCount(body)
            /\ res' = Response("create", u, body.expiresAt, 201, "created")
    /\ UNCHANGED now

\* PUT /api/auctions/:id
Update(u, body) ==
    /\ nextBidId + bodyBidCount(body) <= MaxBidIds + 1
    /\ IF auction = NoAuction
       THEN /\ res' = Response("update", u, Absent, 404, "Auction not found")
            /\ UNCHANGED <<auction, nextBidId>>
       ELSE IF auction.status # "open"
       THEN /\ res' = Response("update", u, Absent, 400, "Cannot update auction that is not open")
            /\ UNCHANGED <<auction, nextBidId>>
       ELSE /\ auction' = updatedAuction(auction, body, nextBidId, now)
            /\ nextBidId' = nextBidId + bodyBidCount(body)
            /\ res' = Response("update", u, Absent, 200, "updated")
    /\ UNCHANGED now

\* mutant: auctions of any status are deleted
deleteNotOpen_Never(a) == FALSE

\* the delete handler's status check
deleteNotOpen(a) == a.status # "open"

\* DELETE /api/auctions/:id
Delete(u) ==
    /\ IF auction = NoAuction
       THEN /\ res' = Response("delete", u, Absent, 404, "Auction not found")
            /\ UNCHANGED auction
       ELSE IF deleteNotOpen(auction)
       THEN /\ res' = Response("delete", u, Absent, 400, "Cannot delete auction that is not open")
            /\ UNCHANGED auction
       ELSE /\ auction' = [auction EXCEPT !.isActive = FALSE]
            /\ res' = Response("delete", u, Absent, 200, "Auction deleted successfully")
    /\ UNCHANGED <<nextBidId, now>>

\* POST /api/auctions/:id/bid
SubmitBid(u, inp) ==
    /\ nextBidId <= MaxBidIds
    /\ IF ~validateBid(inp)
       THEN /\ res' = Response("submitBid", u, inp, 400, "validation errors")
            /\ UNCHANGED <<auction, nextBidId>>
       ELSE IF auction = NoAuction
       THEN /\ res' = Response("submitBid", u, inp, 404, "Auction not found")
            /\ UNCHANGED <<auction, nextBidId>>
       ELSE IF ~auction.isActive
       THEN /\ res' = Response("submitBid", u, inp, 400, "Auction is not active")
            /\ UNCHANGED <<auction, nextBidId>>
       ELSE IF auction.status # "open"
       THEN /\ res' = Response("submitBid", u, inp, 400, "Auction is not open for bidding")
            /\ UNCHANGED <<auction, nextBidId>>
       ELSE IF auction.buyer = u
       THEN /\ res' = Response("submitBid", u, inp, 400, "Cannot bid on your own auction")
            /\ UNCHANGED <<auction, nextBidId>>
       ELSE IF ~isOpen(auction, now)
       THEN /\ res' = Response("submitBid", u, inp, 400, "Auction is not open for bidding")
            /\ UNCHANGED <<auction, nextBidId>>
       ELSE /\ auction' = [auction EXCEPT !.bids =
                             addBidBids(@, [developer |-> u, amount |-> inp.amount,
                                            proposal |-> inp.proposal,
                                            timeline |-> inp.timeline], nextBidId, now)]
            /\ nextBidId' = nextBidId + 1
            /\ res' = Response("submitBid", u, inp, 200, "auction")
    /\ UNCHANGED now

\* mutant: bids are accepted whatever the auction's status
acceptNotOpen_Never(a) == FALSE

\* the accept handler's status check
acceptNotOpen(a) == a.status # "open"

\* mutant: an administrator passes the check, as in ownerOrAdmin
acceptNotBuyer_AdminPasses(a, u) == a.buyer # u /\ role(u) # "admin"

\* the accept handler's buyer check
acceptNotBuyer(a, u) == a.buyer # u

\* PUT /api/auctions/:id/bid/:bidId/accept
AcceptBid(u, bidId) ==
    /\ IF auction = NoAuction
       THEN /\ res' = Response("acceptBid", u, bidId, 404, "Auction not found")
            /\ UNCHANGED auction
       ELSE IF acceptNotBuyer(auction, u)
       THEN /\ res' = Response("acceptBid", u, bidId, 403, "Not authorized to accept bids on this auction")
            /\ UNCHANGED auction
       ELSE IF acceptNotOpen(auction)
       THEN /\ res' = Response("acceptBid", u, bidId, 400, "Cannot accept bids on auction that is not open")
            /\ UNCHANGED auction
       ELSE IF bidsId(auction.bids, bidId) = 0
       THEN /\ res' = Response("acceptBid", u, bidId, 400, "Bid not found")
            /\ UNCHANGED auction
       ELSE IF auction.bids[bidsId(auction.bids, bidId)].status # "pending"
       THEN /\ res' = Response("acceptBid", u, bidId, 400, "Bid is not pending")
            /\ UNCHANGED auction
       ELSE /\ auction' = acceptBidDoc(auction, bidId)
            /\ res' = Response("acceptBid", u, bidId, 200, "auction")
    /\ UNCHANGED <<nextBidId, now>>

\* the clock of new Date()
Tick ==
    /\ now < MaxTime
    /\ now' = now + 1
    /\ res' = NoRes
    /\ UNCHANGED <<auction, nextBidId>>

BidIdInputs == 1..(MaxBidIds + 1)

\* the handlers called one after the other, each running to its response
CreatePlain ==
    /\ \E u \in Buyers, body \in PlainBodies : Create(u, body)
    /\ UNCHANGED <<req, payVars, raceVars>>

UpdatePlain ==
    /\ \E u \in Buyers, body \in PlainBodies : Update(u, body)
    /\ UNCHANGED <<req, payVars, raceVars>>

CreateRaw ==
    /\ \E u \in Buyers, body \in RawBodies : Create(u, body)
    /\ UNCHANGED <<req, payVars, raceVars>>

UpdateRaw ==
    /\ \E u \in Buyers, body \in RawBodies : Update(u, body)
    /\ UNCHANGED <<req, payVars, raceVars>>

DeleteAuction ==
    /\ \E u \in Users : Delete(u)
    /\ UNCHANGED <<req, payVars, raceVars>>

SubmitBidReq ==
    /\ \E u \in Users, inp \in BidInputs : SubmitBid(u, inp)
    /\ UNCHANGED <<req, payVars, raceVars>>

AcceptBidReq ==
    /\ \E u \in Users, bidId \in BidIdInputs : AcceptBid(u, bidId)
    /\ UNCHANGED <<req, payVars, raceVars>>

Clock ==
    /\ Tick
    /\ UNCHANGED <<req, payVars, raceVars>>

Next ==
    \/ CreatePlain
    \/ UpdatePlain
    \/ DeleteAuction
    \/ SubmitBidReq
    \/ AcceptBidReq
    \/ Clock

Spec == Init /\ [][Next]_vars

NextBody ==
    \/ CreateRaw
    \/ UpdateRaw
    \/ DeleteAuction
    \/ SubmitBidReq
    \/ AcceptBidReq
    \/ Clock

SpecBody == Init /\ [][NextBody]_vars

(* ---------------------------- Payment model ---------------------------- *)
\* strings are sequences of characters, "" is <<>>
Digits == <<"1", "2", "3", "4", "5", "6", "7", "8", "9">>

\* the id the gateway gives its k-th order
OrderId(k) == <<"o", Digits[k]>>

\* the key secret shared with the gateway, and another key
KeySecret == "key_secret"
OtherKey == "other_key"

\* crypto.createHmac('sha256', key).update(msg).digest('hex'): distinct
\* (key, msg) pairs give distinct digests
Hmac(key, msg) == <<"hmac-sha256", key, msg>>

\* the signed text razorpayOrderId + '|' + razorpayPaymentId
SignedBody(orderId, paymentId) == orderId \o <<"|">> \o paymentId

expectedSignature(orderId, paymentId) == Hmac(KeySecret, SignedBody(orderId, paymentId))

\* mutant: the comparison is skipped
signatureMismatch_Never(expected, given) == FALSE

\* expectedSignature !== razorpaySignature
signatureMismatch(expected, given) == expected # given

\* Payment.createPayment(paymentData): schema defaults for the rest
newPayment(u, appId, amount, orderId) ==
    [user |-> u, app |-> appId, amount |-> amount, razorpayOrderId |-> orderId,
     razorpayPaymentId |-> <<>>, razorpaySignature |-> <<>>, status |-> "pending",
     completedAt |-> NoDate, refundAmount |-> 0, refundReason |-> Absent,
     refundedAt |-> NoDate]

\* mutant: the lookup finds nothing
existingPayment_Never(ps, u, appId) == FALSE

\* Payment.findOne({user, app, status: 'completed'}) finds a record
existingPayment(ps, u, appId) ==
    \E i \in 1..Len(ps) :
        ps[i].user = u /\ ps[i].app = appId /\ ps[i].status = "completed"

\* statics.findByOrderId: index of the record, 0 for null
RECURSIVE findByOrderIdFrom(_, _, _)
findByOrderIdFrom(ps, orderId, i) ==
    IF i > Len(ps) THEN 0
    ELSE IF ps[i].razorpayOrderId = orderId THEN i
    ELSE findByOrderIdFrom(ps, orderId, i + 1)

findByOrderId(ps, orderId) == findByOrderIdFrom(ps, orderId, 1)

\* methods.markCompleted
markCompleted(p, paymentId, signature, t) ==
    [p EXCEPT !.razorpayPaymentId = paymentId, !.razorpaySignature = signature,
              !.status = "completed", !.completedAt = t]

\* user.purchases.includes(app)
RECURSIVE includes(_, _)
includes(list, x) ==
    IF list = <<>> THEN FALSE
    ELSE IF Head(list) = x THEN TRUE
    ELSE includes(Tail(list), x)

\* the verify handler's registration of the purchase
registerPurchase(list, appId) ==
    IF ~includes(list, appId) THEN Append(list, appId) ELSE list

\* Math.round(amount * 100), amounts being whole rupees
toPaise(amount) == amount * 100

\* mutant: the refund fields are written, the status is left as it is
processRefund_KeepStatus(p, amount, reason, t) ==
    [p EXCEPT !.refundAmount = amount, !.refundReason = reason, !.refundedAt = t]

\* methods.processRefund
processRefund(p, amount, reason, t) ==
    [p EXCEPT !.status = "refunded", !.refundAmount = amount,
              !.refundReason = reason, !.refundedAt = t]

\* one more call of razorpay.payments.refund for a payment record
RefundCall(g, ok) ==
    [g EXCEPT !.calls = @ + 1, !.refunded = IF ok THEN @ + 1 ELSE @]

RECURSIVE SumCalls(_, _)
SumCalls(g, k) == IF k = 0 THEN 0 ELSE g[k].calls + SumCalls(g, k - 1)

(* ----------------------- payment route handlers ------------------------ *)
\* POST /api/payments/create-order; gatewayOk: razorpay.orders.create resolves
createOrder(u, appId, amount, gatewayOk) ==
    /\ gatewayOrders < MaxOrders
    /\ IF amount < 0
       THEN /\ res' = Response("createOrder", u, appId, 400, "validation errors")
            /\ UNCHANGED <<payments, gatewayOrders>>
       ELSE IF appId \notin Apps
       THEN /\ res' = Response("createOrder", u, appId, 404, "App not found")
            /\ UNCHANGED <<payments, gatewayOrders>>
       ELSE IF existingPayment(payments, u, appId)
       THEN /\ res' = Response("createOrder", u, appId, 400, "You have already purchased this app")
            /\ UNCHANGED <<payments, gatewayOrders>>
       ELSE IF ~gatewayOk
       THEN /\ res' = Response("createOrder", u, appId, 500, "Failed to create order")
            /\ UNCHANGED <<payments, gatewayOrders>>
       ELSE /\ gatewayOrders' = gatewayOrders + 1
            /\ payments' = Append(payments,
                                  newPayment(u, appId, amount, OrderId(gatewayOrders + 1)))
            /\ res' = Response("createOrder", u, appId, 200, toPaise(amount))
    /\ UNCHANGED <<purchases, downloads, gatewayRefunds>>

\* mutant: a processed payment is verified again
verifyNotPending_Never(p) == FALSE

\* the verify handler's status check
verifyNotPending(p) == p.status # "pending"

\* mutant: the catch block puts the payments back as the request found them
verifyCatch_RollBack(found, saved) == found

\* the payments once the catch block of verify has run: it logs and answers,
\* what was saved stays saved
verifyCatch(found, saved) == saved

\* mutant: the record is verified whoever calls
verifyNotOwner_Never(p, u) == FALSE

\* the verify handler's ownership check
verifyNotOwner(p, u) == p.user # u

\* POST /api/payments/verify; failAt: the save() that rejects, if any
verify(u, v, failAt) ==
    LET k == findByOrderId(payments, v.orderId)
        completed == [payments EXCEPT ![k] =
                         markCompleted(@, v.paymentId, v.signature, now)]
        registered == [purchases EXCEPT ![u] = registerPurchase(@, payments[k].app)]
        counted == [downloads EXCEPT ![payments[k].app] = @ + 1]
    IN
    IF v.orderId = <<>> \/ v.paymentId = <<>> \/ v.signature = <<>>
    THEN /\ res' = Response("verify", u, v, 400, "Missing payment verification data")
         /\ UNCHANGED <<payments, purchases, downloads>>
    ELSE IF signatureMismatch(expectedSignature(v.orderId, v.paymentId), v.signature)
    THEN /\ res' = Response("verify", u, v, 400, "Invalid payment signature")
         /\ UNCHANGED <<payments, purchases, downloads>>
    ELSE IF k = 0
    THEN /\ res' = Response("verify", u, v, 404, "Payment record not found")
         /\ UNCHANGED <<payments, purchases, downloads>>
    ELSE IF verifyNotOwner(payments[k], u)
    THEN /\ res' = Response("verify", u, v, 403, "Not authorized to verify this payment")
         /\ UNCHANGED <<payments, purchases, downloads>>
    ELSE IF verifyNotPending(payments[k])
    THEN /\ res' = Response("verify", u, v, 400, "Payment has already been processed")
         /\ UNCHANGED <<payments, purchases, downloads>>
    ELSE IF failAt = "payment"
    THEN /\ res' = Logged(Response("verify", u, v, 500, "Failed to verify payment"), failAt)
         /\ UNCHANGED <<payments, purchases, downloads>>
    ELSE IF failAt = "user" /\ ~includes(purchases[u], payments[k].app)
    THEN /\ payments' = verifyCatch(payments, completed)
         /\ res' = Logged(Response("verify", u, v, 500, "Failed to verify payment"), failAt)
         /\ UNCHANGED <<purchases, downloads>>
    ELSE IF failAt = "app"
    THEN /\ payments' = verifyCatch(payments, completed)
         /\ purchases' = registered
         /\ res' = Logged(Response("verify", u, v, 500, "Failed to verify payment"), failAt)
         /\ UNCHANGED downloads
    ELSE /\ payments' = completed
         /\ purchases' = registered
         /\ downloads' = counted
         /\ res' = Response("verify", u, v, 200, "Payment verified successfully")

\* mutant: payments of any status are refunded
refundNotCompleted_Never(p) == FALSE

\* the refund handler's status check
refundNotCompleted(p) == p.status # "completed"

\* the request gets as far as calling the gateway; r.paymentId is the _id of a
\* payment record, the index of the record in payments
reachesGateway(u, r) ==
    /\ role(u) = "admin"
    /\ r.paymentId # 0 /\ r.amount # 0 /\ r.reason # ""
    /\ r.paymentId <= Len(payments)
    /\ ~refundNotCompleted(payments[r.paymentId])

\* POST /api/payments/refund; outcome: razorpay.payments.refund resolves and
\* the record is saved ("ok"), razorpay.payments.refund rejects ("gateway"),
\* or it resolves and the save() of processRefund rejects ("save")
refund(u, r, outcome) ==
    /\ reachesGateway(u, r) => SumCalls(gatewayRefunds, MaxOrders) < MaxRefunds
    /\ IF role(u) # "admin"
       THEN /\ res' = Response("refund", u, r, 403, "Admin access required")
            /\ UNCHANGED <<payments, gatewayRefunds>>
       ELSE IF r.paymentId = 0 \/ r.amount = 0 \/ r.reason = ""
       THEN /\ res' = Response("refund", u, r, 400, "Payment ID, amount, and reason are required")
            /\ UNCHANGED <<payments, gatewayRefunds>>
       ELSE IF r.paymentId > Len(payments)
       THEN /\ res' = Response("refund", u, r, 404, "Payment not found")
            /\ UNCHANGED <<payments, gatewayRefunds>>
       ELSE IF refundNotCompleted(payments[r.paymentId])
       THEN /\ res' = Response("refund", u, r, 400, "Only completed payments can be refunded")
            /\ UNCHANGED <<payments, gatewayRefunds>>
       ELSE IF outcome = "gateway"
       THEN /\ gatewayRefunds' = [gatewayRefunds EXCEPT ![r.paymentId] = RefundCall(@, FALSE)]
            /\ res' = Response("refund", u, r, 500, "Failed to process refund through Razorpay")
            /\ UNCHANGED payments
       ELSE IF outcome = "save"
       THEN /\ gatewayRefunds' = [gatewayRefunds EXCEPT ![r.paymentId] = RefundCall(@, TRUE)]
            /\ res' = Response("refund", u, r, 500, "Failed to process refund through Razorpay")
            /\ UNCHANGED payments
       ELSE /\ gatewayRefunds' = [gatewayRefunds EXCEPT ![r.paymentId] = RefundCall(@, TRUE)]
            /\ payments' = [payments EXCEPT ![r.paymentId] =
                                processRefund(@, r.amount, r.reason, now)]
            /\ res' = Response("refund", u, r, 200, "Refund processed successfully")
    /\ UNCHANGED <<gatewayOrders, purchases, downloads>>

\* the accounts that pay
Payers == {"u1", "u2"}
Amounts == {199}
AppIdInputs == Apps \cup {"a0"}
PaymentIdInputs == {<<"p", "1">>, <<"p", "2">>}
OrderIdInputs == {OrderId(k) : k \in 1..MaxOrders}

\* the signatures a caller may send for (orderId, paymentId): the gateway's, the
\* gateway's for another payment id of that order, one made with another key
SignatureInputs(orderId, paymentId) ==
    {Hmac(KeySecret, SignedBody(orderId, paymentId)),
     Hmac(OtherKey, SignedBody(orderId, paymentId))}
    \cup {Hmac(KeySecret, SignedBody(orderId, q)) : q \in PaymentIdInputs}

VerifyInput(orderId, paymentId, signature) ==
    [orderId |-> orderId, paymentId |-> paymentId, signature |-> signature]

VerifyInputs ==
    UNION { { VerifyInput(o, q, sig) : sig \in SignatureInputs(o, q) } :
            o \in OrderIdInputs, q \in PaymentIdInputs }
    \cup { VerifyInput(OrderId(1), <<"p", "1">>, <<>>) }

SaveFailures == {"none", "payment", "user", "app"}

\* a save() can only reject in a request that gets as far as saving
reachesSave(u, v) ==
    LET k == findByOrderId(payments, v.orderId) IN
    /\ v.orderId # <<>> /\ v.paymentId # <<>> /\ v.signature # <<>>
    /\ ~signatureMismatch(expectedSignature(v.orderId, v.paymentId), v.signature)
    /\ k # 0
    /\ ~verifyNotOwner(payments[k], u)
    /\ ~verifyNotPending(payments[k])

\* request bodies of POST /refund: an amount (the price, more than the price)
\* and a reason, or one of them missing
RefundFields ==
    { [amount |-> 199, reason |-> "r1"], [amount |-> 300, reason |-> "r2"],
      [amount |-> 0, reason |-> "r1"], [amount |-> 199, reason |-> ""] }

RefundInputs ==
    { [paymentId |-> k, amount |-> f.amount, reason |-> f.reason] :
        k \in 1..MaxOrders, f \in RefundFields }

\* the accounts that ask for refunds: an administrator and another account
Refunders == Admins \cup {"u1"}

RefundOutcomes == {"ok", "gateway", "save"}

CreateOrderReq ==
    /\ \E u \in Payers, appId \in AppIdInputs, amount \in Amounts, gatewayOk \in BOOLEAN :
          createOrder(u, appId, amount, gatewayOk)
    /\ UNCHANGED <<raceVars, auctionVars, now, req>>

VerifyReq ==
    /\ \E u \in Payers, v \in VerifyInputs :
          \E failAt \in (IF reachesSave(u, v) THEN SaveFailures ELSE {"none"}) :
              verify(u, v, failAt)
    /\ UNCHANGED <<raceVars, auctionVars, now, req, gatewayOrders, gatewayRefunds>>

RefundReq ==
    /\ \E u \in Refunders, r \in RefundInputs :
          \E outcome \in (IF reachesGateway(u, r) THEN RefundOutcomes ELSE {"ok"}) :
              refund(u, r, outcome)
    /\ UNCHANGED <<raceVars, auctionVars, now, req>>

NextPay ==
    \/ CreateOrderReq
    \/ VerifyReq

SpecPay == Init /\ [][NextPay]_vars

\* the checkout page: the signed-in account orders the item it looks at, and
\* sends back what the gateway's form returned for that order
Shopper == "u1"

CheckoutInputs ==
    { VerifyInput(o, <<"p", "1">>, Hmac(KeySecret, SignedBody(o, <<"p", "1">>))) :
        o \in OrderIdInputs }

CheckoutOrder ==
    /\ \E appId \in Apps, amount \in Amounts, gatewayOk \in BOOLEAN :
          createOrder(Shopper, appId, amount, gatewayOk)
    /\ UNCHANGED <<raceVars, auctionVars, now, req>>

CheckoutVerify ==
    /\ \E v \in CheckoutInputs :
          \E failAt \in (IF reachesSave(Shopper, v) THEN SaveFailures ELSE {"none"}) :
              verify(Shopper, v, failAt)
    /\ UNCHANGED <<raceVars, auctionVars, now, req, gatewayOrders, gatewayRefunds>>

NextRefund ==
    \/ CheckoutOrder
    \/ CheckoutVerify
    \/ RefundReq

SpecRefund == Init /\ [][NextRefund]_vars

(* --------------------------- the app catalogue ------------------------- *)
\* user.purchases.some(purchase => purchase.app.toString() === req.params.id);
\* an entry of purchases is kept as the item it refers to
alreadyPurchased(list, appId) == \E i \in 1..Len(list) : list[i] = appId

\* POST /api/apps/:id/purchase, saved: user.save() resolves
Purchase(u, appId, saved) ==
    IF appId \notin Apps
    THEN /\ res' = Response("purchase", u, appId, 404, "App not found")
         /\ UNCHANGED purchases
    ELSE IF alreadyPurchased(purchases[u], appId)
    THEN /\ res' = Response("purchase", u, appId, 400, "App already purchased")
         /\ UNCHANGED purchases
    ELSE IF ~saved
    THEN /\ res' = Logged(Response("purchase", u, appId, 500, "Server error"), "user")
         /\ UNCHANGED purchases
    ELSE /\ res' = Response("purchase", u, appId, 200, "App purchased successfully")
         /\ purchases' = [purchases EXCEPT ![u] = Append(@, appId)]

PurchaseReq ==
    /\ \E u \in Payers, appId \in AppIdInputs, saved \in BOOLEAN :
          Purchase(u, appId, saved)
    /\ UNCHANGED <<raceVars, auctionVars, now, req, payments, gatewayOrders, downloads,
                   gatewayRefunds>>

\* the purchase route next to the payment routes
NextShop ==
    \/ CreateOrderReq
    \/ VerifyReq
    \/ PurchaseReq

SpecShop == Init /\ [][NextShop]_vars

(* ----------------------- Express middleware chain ---------------------- *)
\* what the Authorization header of a request amounts to: absent, of another
\* scheme, 'Bearer' alone, 'Bearer' followed by an empty token, a token that
\* jwt.verify rejects, a token of an account that is gone or deactivated, a
\* token whose account lookup rejects, a token of an active account
AuthKinds ==
    {"none", "otherScheme", "bearerOnly", "emptyToken", "malformed", "unknown",
     "inactive", "dbError", "valid"}

\* what one call of a middleware function does with (req, res, next)
Outcome(next, responses, code, msg) ==
    [next |-> next, responses |-> responses, code |-> code, msg |-> msg]

\* req.headers.authorization && req.headers.authorization.startsWith('Bearer')
startsWithBearer(auth) == auth \notin {"none", "otherScheme"}

\* token after the if statement: declared without a value, assigned
\* authorization.split(' ')[1] as the first statement of the try block
token(auth) ==
    IF ~startsWithBearer(auth) THEN "undefined"
    ELSE IF auth = "bearerOnly" THEN "undefined"
    ELSE IF auth = "emptyToken" THEN ""
    ELSE "jwt"

\* !token
falsy(t) == t \in {"undefined", ""}

\* jwt.verify(token, secret) returns the payload instead of throwing
jwtVerifies(auth) == auth \in {"unknown", "inactive", "dbError", "valid"}

\* what a block of protect leaves behind: whether it returned from the
\* function, and what it did with res and next
Block(returned, out) == [returned |-> returned, out |-> out]

\* mutant: the catch block responds without returning
catchBlock_NoReturn ==
    Block(FALSE, Outcome(FALSE, 1, 401, "Not authorized, token failed"))

\* catch (error) { ...; return res.status(401).json(...) }
catchBlock ==
    Block(TRUE, Outcome(FALSE, 1, 401, "Not authorized, token failed"))

\* the try block of protect
tryBlock(auth) ==
    IF ~jwtVerifies(auth) \/ auth = "dbError" THEN catchBlock
    ELSE IF auth = "unknown"
    THEN Block(TRUE, Outcome(FALSE, 1, 401, "User not found"))
    ELSE IF auth = "inactive"
    THEN Block(TRUE, Outcome(FALSE, 1, 401, "User account is deactivated"))
    ELSE Block(FALSE, Outcome(TRUE, 0, 0, ""))

\* protect(req, res, next)
protect(auth) ==
    LET first == IF startsWithBearer(auth) THEN tryBlock(auth)
                 ELSE Block(FALSE, Outcome(FALSE, 0, 0, ""))
    IN  IF first.returned THEN first.out
        ELSE IF falsy(token(auth))
        THEN Outcome(first.out.next, first.out.responses + 1, 401,
                     "Not authorized, no token")
        ELSE first.out

\* mutant: the function checks the resource and passes the request on
ownerOrAdmin_CallsNext == Outcome(TRUE, 0, 0, "")

\* ownerOrAdmin(req, res, next): ownerOrAdmin is the factory
\* (resourceModel) => async (req, res, next) => {...}; the auction routes
\* register the factory itself, so Express calls it with req as resourceModel
\* and it returns the inner function, which nobody calls
ownerOrAdmin == Outcome(FALSE, 0, 0, "")

\* an express-validator chain records its errors on req and calls next()
validator == Outcome(TRUE, 0, 0, "")

\* the stacks the auction routes are registered with
Stack(route) ==
    CASE route = "create" -> <<"protect", "validator", "handler">>
      [] route = "update" -> <<"protect", "ownerOrAdmin", "validator", "handler">>
      [] route = "delete" -> <<"protect", "ownerOrAdmin", "handler">>
      [] route = "submitBid" -> <<"protect", "validator", "handler">>
      [] route = "acceptBid" -> <<"protect", "ownerOrAdmin", "handler">>

Routes == {"create", "update", "delete", "submitBid", "acceptBid"}

Request(route, auth, user, body, inp, bidId) ==
    [route |-> route, auth |-> auth, user |-> user, body |-> body, inp |-> inp,
     bidId |-> bidId, idx |-> 1, scheduled |-> TRUE, responses |-> 0]

NoBody ==
    [expiresAt |-> NoDate, status |-> Absent, isActive |-> Absent,
     hasBids |-> FALSE, bids |-> <<>>]
NoInp == [amount |-> 0, proposal |-> "", timeline |-> 0]

\* the requests a client sends to the auction routes: with an Authorization
\* header that identifies an active account, and with one that does not
Requests ==
    { Request(route, "valid", user, body, NoInp, 0) :
        route \in {"create", "update"}, user \in Buyers, body \in PlainBodies }
    \cup { Request("delete", "valid", user, NoBody, NoInp, 0) : user \in Users }
    \cup { Request("submitBid", "valid", user, NoBody, inp, 0) :
             user \in Users, inp \in BidInputs }
    \cup { Request("acceptBid", "valid", user, NoBody, NoInp, bidId) :
             user \in Users, bidId \in BidIdInputs }
    \cup { Request(route, auth, Absent, NoBody, NoInp, 0) :
             route \in Routes, auth \in AuthKinds \ {"valid"} }

Current == Stack(req.route)[req.idx]

\* the effect of a middleware's outcome on the request
Advance(out) ==
    /\ req' = [req EXCEPT !.idx = IF out.next THEN @ + 1 ELSE @,
                          !.scheduled = out.next,
                          !.responses = @ + out.responses]
    /\ res' = IF out.responses > 0
              THEN Response(req.route, req.user, Absent, out.code, out.msg)
              ELSE res
    /\ UNCHANGED <<auction, nextBidId, now, payVars, raceVars>>

\* a request arrives once the previous one has nothing left to run
Arrive ==
    /\ ~req.scheduled
    /\ req' \in Requests
    /\ UNCHANGED <<auction, nextBidId, now, res, payVars, raceVars>>

RunProtect ==
    /\ req.scheduled /\ Current = "protect"
    /\ Advance(protect(req.auth))

RunOwnerOrAdmin ==
    /\ req.scheduled /\ Current = "ownerOrAdmin"
    /\ Advance(ownerOrAdmin)

RunValidator ==
    /\ req.scheduled /\ Current = "validator"
    /\ Advance(validator)

RunHandler ==
    /\ req.scheduled /\ Current = "handler"
    /\ CASE req.route = "create" -> Create(req.user, req.body)
         [] req.route = "update" -> Update(req.user, req.body)
         [] req.route = "delete" -> Delete(req.user)
         [] req.route = "submitBid" -> SubmitBid(req.user, req.inp)
         [] req.route = "acceptBid" -> AcceptBid(req.user, req.bidId)
    /\ req' = [req EXCEPT !.scheduled = FALSE, !.responses = @ + 1]
    /\ UNCHANGED <<payVars, raceVars>>

NextHttp ==
    \/ Arrive
    \/ RunProtect
    \/ RunOwnerOrAdmin
    \/ RunValidator
    \/ RunHandler

SpecHttp == Init /\ [][NextHttp]_vars

(* -------------------- requests running concurrently -------------------- *)
\* Every await of a handler is a point where other requests run. A request
\* takes a slot when its findById / findOne resolves and keeps the document it
\* got; the rest of the handler works on that document and saves it.

\* slots are taken in order
FreeSlot(i) ==
    /\ flights[i].pc = "idle"
    /\ \A j \in 1..(i - 1) : flights[j].pc # "idle"

\* a request that has sent its response
Done(op, code) == [pc |-> "done", op |-> op, code |-> code]

Reading(i, op) == flights[i].pc = "read" /\ flights[i].op = op

\* GET /api/auctions/:id up to Auction.findById resolving
BeginView(i) ==
    /\ FreeSlot(i)
    /\ flights' = [flights EXCEPT ![i] =
                      [pc |-> "read", op |-> "view", doc |-> auction, views |-> views]]
    /\ UNCHANGED <<views, version, auctionVars, now, res, req, payVars>>

\* the save of GET /:id reaches the store
viewReachesSave(f) == f.doc # NoAuction /\ f.doc.isActive

\* GET /api/auctions/:id from there on: auction.views += 1 on the document
\* read, and save(), which sets the stored counter to that value
EndView(i, saved) ==
    /\ Reading(i, "view")
    /\ LET f == flights[i]
           code == IF f.doc = NoAuction THEN 404
                   ELSE IF ~f.doc.isActive THEN 404
                   ELSE IF ~saved THEN 500
                   ELSE 200
           msg == IF f.doc = NoAuction THEN "Auction not found"
                  ELSE IF ~f.doc.isActive THEN "Auction is not active"
                  ELSE IF ~saved THEN "Server error"
                  ELSE "auction"
       IN /\ views' = IF code = 200 THEN f.views + 1 ELSE views
          /\ res' = Response("view", Absent, Absent, code, msg)
          /\ flights' = [flights EXCEPT ![i] = Done("view", code)]
    /\ UNCHANGED <<version, auctionVars, now, req, payVars>>

ViewBegin == \E i \in 1..MaxFlights : BeginView(i)

ViewEnd ==
    \E i \in 1..MaxFlights :
        /\ Reading(i, "view")
        /\ \E saved \in (IF viewReachesSave(flights[i]) THEN BOOLEAN ELSE {TRUE}) :
              EndView(i, saved)

\* concurrent reads of the auction by id
NextViews ==
    \/ CreatePlain
    \/ DeleteAuction
    \/ ViewBegin
    \/ ViewEnd

SpecViews == Init /\ [][NextViews]_vars

\* the accounts that bid, and the bid they send, while requests overlap
RaceBidders == {"u2", "u3"}
RaceBidInputs == {[amount |-> 300, proposal |-> "p1", timeline |-> 14]}

\* POST /api/auctions/:id/bid up to Auction.findById resolving
BeginSubmit(i, u, inp) ==
    /\ FreeSlot(i)
    /\ validateBid(inp)
    /\ flights' = [flights EXCEPT ![i] =
                      [pc |-> "read", op |-> "submitBid", user |-> u, inp |-> inp,
                       doc |-> auction, version |-> version]]
    /\ UNCHANGED <<views, version, auctionVars, now, res, req, payVars>>

\* the checks of the bid route and of addBid pass on the document read
submitReachesSave(f) ==
    /\ f.doc # NoAuction
    /\ f.doc.isActive
    /\ f.doc.status = "open"
    /\ f.doc.buyer # f.user
    /\ isOpen(f.doc, now)

\* POST /api/auctions/:id/bid from there on. save() sends the modified paths:
\* a new bid is a $push that increments __v; a replaced bid is a $set of
\* bids.<index> under the condition that __v is the one read, and a save whose
\* condition matches no document rejects with a VersionError
EndSubmit(i) ==
    /\ Reading(i, "submitBid")
    /\ submitReachesSave(flights[i]) => nextBidId <= MaxBidIds
    /\ LET f == flights[i]
           u == f.user
           existingBidIndex == findIndex(f.doc.bids, u)
           bid == newBid(nextBidId,
                         [developer |-> u, amount |-> f.inp.amount,
                          proposal |-> f.inp.proposal, timeline |-> f.inp.timeline],
                         now)
           answer(code, msg) ==
               /\ res' = Response("submitBid", u, f.inp, code, msg)
               /\ flights' = [flights EXCEPT ![i] = Done("submitBid", code)]
       IN
       IF f.doc = NoAuction
       THEN /\ answer(404, "Auction not found")
            /\ UNCHANGED <<auction, nextBidId, version>>
       ELSE IF ~f.doc.isActive
       THEN /\ answer(400, "Auction is not active")
            /\ UNCHANGED <<auction, nextBidId, version>>
       ELSE IF f.doc.status # "open"
       THEN /\ answer(400, "Auction is not open for bidding")
            /\ UNCHANGED <<auction, nextBidId, version>>
       ELSE IF f.doc.buyer = u
       THEN /\ answer(400, "Cannot bid on your own auction")
            /\ UNCHANGED <<auction, nextBidId, version>>
       ELSE IF ~isOpen(f.doc, now)
       THEN /\ answer(400, "Auction is not open for bidding")
            /\ UNCHANGED <<auction, nextBidId, version>>
       ELSE IF existingBidIndex = 0
       THEN /\ auction' = [auction EXCEPT !.bids = Append(@, bid)]
            /\ version' = version + 1
            /\ nextBidId' = nextBidId + 1
            /\ answer(200, "auction")
       ELSE IF version # f.version
       THEN /\ answer(500, "Server error")
            /\ UNCHANGED <<auction, nextBidId, version>>
       ELSE /\ auction' = [auction EXCEPT !.bids[existingBidIndex] = bid]
            /\ nextBidId' = nextBidId + 1
            /\ answer(200, "auction")
            /\ UNCHANGED version
    /\ UNCHANGED <<views, now, req, payVars>>

\* PUT /api/auctions/:id/bid/:bidId/accept up to Auction.findById resolving
BeginAccept(i, u, bidId) ==
    /\ FreeSlot(i)
    /\ flights' = [flights EXCEPT ![i] =
                      [pc |-> "read", op |-> "acceptBid", user |-> u, bidId |-> bidId,
                       doc |-> auction, version |-> version]]
    /\ UNCHANGED <<views, version, auctionVars, now, res, req, payVars>>

\* the stored bids after a save of the document doc, read as old: the status
\* of every bid whose status acceptBid changed is set, by its index
savedBidStatuses(stored, old, doc) ==
    [j \in 1..Len(stored) |->
        IF j <= Len(doc) /\ doc[j].status # old[j].status
        THEN [stored[j] EXCEPT !.status = doc[j].status]
        ELSE stored[j]]

\* PUT /api/auctions/:id/bid/:bidId/accept from there on. save() sends $set
\* of bids.<index>.status, acceptedBid and status under the condition that
\* __v is the one read; __v is not incremented
EndAccept(i) ==
    /\ Reading(i, "acceptBid")
    /\ LET f == flights[i]
           u == f.user
           k == bidsId(f.doc.bids, f.bidId)
           doc == acceptBidDoc(f.doc, f.bidId)
           answer(code, msg) ==
               /\ res' = Response("acceptBid", u, f.bidId, code, msg)
               /\ flights' = [flights EXCEPT ![i] = Done("acceptBid", code)]
       IN
       IF f.doc = NoAuction
       THEN /\ answer(404, "Auction not found")
            /\ UNCHANGED auction
       ELSE IF acceptNotBuyer(f.doc, u)
       THEN /\ answer(403, "Not authorized to accept bids on this auction")
            /\ UNCHANGED auction
       ELSE IF acceptNotOpen(f.doc)
       THEN /\ answer(400, "Cannot accept bids on auction that is not open")
            /\ UNCHANGED auction
       ELSE IF k = 0
       THEN /\ answer(400, "Bid not found")
            /\ UNCHANGED auction
       ELSE IF f.doc.bids[k].status # "pending"
       THEN /\ answer(400, "Bid is not pending")
            /\ UNCHANGED auction
       ELSE IF version # f.version
       THEN /\ answer(500, "Server error")
            /\ UNCHANGED auction
       ELSE /\ auction' = [auction EXCEPT
                              !.bids = savedBidStatuses(@, f.doc.bids, doc.bids),
                              !.acceptedBid = doc.acceptedBid,
                              !.status = doc.status]
            /\ answer(200, "auction")
    /\ UNCHANGED <<views, version, nextBidId, now, req, payVars>>

SubmitBegin ==
    \E i \in 1..MaxFlights, u \in RaceBidders, inp \in RaceBidInputs :
        BeginSubmit(i, u, inp)

SubmitEnd == \E i \in 1..MaxFlights : EndSubmit(i)

AcceptBegin ==
    \E i \in 1..MaxFlights, u \in Buyers, bidId \in 1..MaxBidIds :
        BeginAccept(i, u, bidId)

AcceptEnd == \E i \in 1..MaxFlights : EndAccept(i)

\* bid and accept requests overlapping on one auction
NextRace ==
    \/ CreatePlain
    \/ SubmitBegin
    \/ SubmitEnd
    \/ AcceptBegin
    \/ AcceptEnd

SpecRace == Init /\ [][NextRace]_vars

\* a verify request that has sent its response; k: the record it found
DoneVerify(code, k) == [pc |-> "done", op |-> "verify", code |-> code, k |-> k]

\* POST /api/payments/verify up to Payment.findByOrderId resolving; the
\* payload has passed the presence and signature checks
BeginVerify(i, u, v) ==
    /\ FreeSlot(i)
    /\ v.orderId # <<>> /\ v.paymentId # <<>> /\ v.signature # <<>>
    /\ ~signatureMismatch(expectedSignature(v.orderId, v.paymentId), v.signature)
    /\ LET k == findByOrderId(payments, v.orderId) IN
       flights' = [flights EXCEPT ![i] =
                     [pc |-> "read", op |-> "verify", user |-> u, v |-> v, k |-> k,
                      doc |-> IF k = 0 THEN Idle ELSE payments[k]]]
    /\ UNCHANGED <<views, version, auctionVars, now, res, req, payVars>>

\* the checks of verify pass on the record read
verifyReachesSave(f) ==
    /\ f.k # 0
    /\ ~verifyNotOwner(f.doc, f.user)
    /\ ~verifyNotPending(f.doc)

\* POST /api/payments/verify from there on; failAt: the save() that rejects,
\* if any. markCompleted saves the fields it set on the record read; the
\* account and the item are read afresh
EndVerify(i, failAt) ==
    /\ Reading(i, "verify")
    /\ LET f == flights[i]
           u == f.user
           k == f.k
           completed == [payments EXCEPT ![k] =
                            markCompleted(@, f.v.paymentId, f.v.signature, now)]
           registered == [purchases EXCEPT ![u] = registerPurchase(@, f.doc.app)]
           counted == [downloads EXCEPT ![f.doc.app] = @ + 1]
           answer(r) ==
               /\ res' = r
               /\ flights' = [flights EXCEPT ![i] = DoneVerify(r.code, k)]
       IN
       IF k = 0
       THEN /\ answer(Response("verify", u, f.v, 404, "Payment record not found"))
            /\ UNCHANGED <<payments, purchases, downloads>>
       ELSE IF verifyNotOwner(f.doc, u)
       THEN /\ answer(Response("verify", u, f.v, 403, "Not authorized to verify this payment"))
            /\ UNCHANGED <<payments, purchases, downloads>>
       ELSE IF verifyNotPending(f.doc)
       THEN /\ answer(Response("verify", u, f.v, 400, "Payment has already been processed"))
            /\ UNCHANGED <<payments, purchases, downloads>>
       ELSE IF failAt = "payment"
       THEN /\ answer(Logged(Response("verify", u, f.v, 500, "Failed to verify payment"), failAt))
            /\ UNCHANGED <<payments, purchases, downloads>>
       ELSE IF failAt = "user" /\ ~includes(purchases[u], f.doc.app)
       THEN /\ payments' = verifyCatch(payments, completed)
            /\ answer(Logged(Response("verify", u, f.v, 500, "Failed to verify payment"), failAt))
            /\ UNCHANGED <<purchases, downloads>>
       ELSE IF failAt = "app"
       THEN /\ payments' = verifyCatch(payments, completed)
            /\ purchases' = registered
            /\ answer(Logged(Response("verify", u, f.v, 500, "Failed to verify payment"), failAt))
            /\ UNCHANGED downloads
       ELSE /\ payments' = completed
            /\ purchases' = registered
            /\ downloads' = counted
            /\ answer(Response("verify", u, f.v, 200, "Payment verified successfully"))
    /\ UNCHANGED <<views, version, auctionVars, now, req, gatewayOrders, gatewayRefunds>>

VerifyBegin ==
    \E i \in 1..MaxFlights, v \in CheckoutInputs : BeginVerify(i, Shopper, v)

VerifyEnd ==
    \E i \in 1..MaxFlights :
        /\ Reading(i, "verify")
        /\ \E failAt \in (IF verifyReachesSave(flights[i]) THEN SaveFailures
                           ELSE {"none"}) :
              EndVerify(i, failAt)

\* verify requests of the checkout page overlapping
NextVerifyRace ==
    \/ CheckoutOrder
    \/ VerifyBegin
    \/ VerifyEnd

SpecVerifyRace == Init /\ [][NextVerifyRace]_vars

(* ================= claims about the middleware chain =================== *)
\* C7: an accept-bid request of an authenticated, active account that has no
\* response yet still has a function of its stack scheduled to run, so it is
\* answered; it never sits unanswered in the chain.
C7_AcceptRequestAnswered ==
    (req.route = "acceptBid" /\ req.auth = "valid" /\ req.responses = 0)
        => req.scheduled

(* ================= claims about the auction lifecycle ================== *)
AcceptedBids(a) == {i \in 1..Len(a.bids) : a.bids[i].status = "accepted"}

\* C1: after a successful acceptBid(bidId) exactly one bid is accepted, the
\* target; every other bid is rejected; acceptedBid is the target's developer
\* and the auction is in-progress.
C1_AcceptBidPostcondition ==
    (res.op = "acceptBid" /\ res.code = 200) =>
        /\ auction.status = "in-progress"
        /\ Cardinality(AcceptedBids(auction)) = 1
        /\ \E k \in 1..Len(auction.bids) :
              /\ auction.bids[k].id = res.arg
              /\ auction.bids[k].status = "accepted"
              /\ auction.acceptedBid = auction.bids[k].developer
              /\ \A j \in 1..Len(auction.bids) :
                    j # k => auction.bids[j].status = "rejected"

\* a bid was accepted on an auction that holds a second bid
C1_Witness ==
    /\ res.op = "acceptBid" /\ res.code = 200
    /\ Len(auction.bids) = 2
    /\ auction.status = "in-progress"

\* C2: in every state at most one bid of the auction is accepted, and a bid
\* is accepted only while the auction is not open.
C2_AcceptedOnlyOnceAndNotOpen ==
    auction.exists =>
        /\ Cardinality(AcceptedBids(auction)) <= 1
        /\ (AcceptedBids(auction) # {} => auction.status # "open")

\* C3: each developer appears at most once among the auction's bids.
C3_DeveloperUnique ==
    auction.exists =>
        \A i, j \in 1..Len(auction.bids) :
            auction.bids[i].developer = auction.bids[j].developer => i = j

\* a developer has submitted twice and holds one bid
C3_Witness ==
    /\ auction.exists
    /\ Len(auction.bids) = 1
    /\ nextBidId = 3
    /\ res.op = "submitBid" /\ res.code = 200

BidCarries(bid, developer, inp) ==
    /\ bid.developer = developer
    /\ bid.amount = inp.amount
    /\ bid.proposal = inp.proposal
    /\ bid.timeline = inp.timeline

\* C4: a valid submitBid by a developer other than the buyer on an active,
\* open, unexpired auction succeeds; a successful submitBid by a developer who
\* already has a bid leaves the number of bids unchanged and that bid carries
\* the submitted amount, proposal and timeline; by a developer without a bid
\* it appends exactly one pending bid.
C4_SubmitBidReplacesOrAppends ==
    [][ res'.op = "submitBid" =>
          LET d == res'.user
              inp == res'.arg
              old == auction.bids
              new == auction'.bids
              mine == {i \in 1..Len(old) : old[i].developer = d}
          IN /\ ( /\ validateBid(inp) /\ auction.exists /\ auction.isActive
                  /\ auction.status = "open" /\ auction.expiresAt > now
                  /\ d # auction.buyer ) => res'.code = 200
             /\ res'.code = 200 =>
                  IF mine # {}
                  THEN /\ Len(new) = Len(old)
                       /\ \A i \in 1..Len(old) :
                             IF i \in mine THEN BidCarries(new[i], d, inp)
                             ELSE new[i] = old[i]
                  ELSE /\ Len(new) = Len(old) + 1
                       /\ \A i \in 1..Len(old) : new[i] = old[i]
                       /\ BidCarries(new[Len(new)], d, inp)
                       /\ new[Len(new)].status = "pending"
      ]_vars

\* the developer's second submission (amount 250) has replaced the first
C4_Witness ==
    /\ res.op = "submitBid" /\ res.code = 200 /\ res.arg.amount = 250
    /\ Len(auction.bids) = 1
    /\ auction.bids[1].id = 2
    /\ auction.bids[1].amount = 250 /\ auction.bids[1].timeline = 10

\* C5: submitBid on an auction whose expiresAt is not later than now fails
\* with "Auction is not open for bidding" and changes no bid (stated for a
\* valid body and a bidder other than the buyer).
C5_ExpiredRejectsBid ==
    [][ ( /\ res'.op = "submitBid"
          /\ validateBid(res'.arg)
          /\ auction.exists /\ auction.isActive
          /\ res'.user # auction.buyer
          /\ auction.expiresAt <= now )
        => ( /\ res'.code = 400
             /\ res'.msg = "Auction is not open for bidding"
             /\ auction' = auction )
      ]_vars

\* C6: acceptBid by the buyer on an auction that is not open fails with
\* "Cannot accept bids on auction that is not open" and leaves the auction
\* unchanged, whatever the statuses of its bids.
C6_AcceptOnNonOpenRejected ==
    [][ ( /\ res'.op = "acceptBid"
          /\ auction.exists
          /\ res'.user = auction.buyer
          /\ auction.status # "open" )
        => ( /\ res'.code = 400
             /\ res'.msg = "Cannot accept bids on auction that is not open"
             /\ auction' = auction )
      ]_vars

\* the buyer was refused on a completed auction that holds a pending bid
C6_Witness ==
    /\ res.op = "acceptBid" /\ res.code = 400
    /\ res.msg = "Cannot accept bids on auction that is not open"
    /\ res.user = auction.buyer
    /\ auction.status = "completed"
    /\ \E i \in 1..Len(auction.bids) :
          auction.bids[i].id = res.arg /\ auction.bids[i].status = "pending"

\* C17: update and delete of an auction that is not open are answered 400
\* "Cannot update/delete auction that is not open" and leave the auction as it
\* is; and an auction goes from active to soft-deleted only in a step that
\* found its status open.
C17_MutationOnlyWhileOpen ==
    [][ /\ ( /\ res'.op \in {"update", "delete"}
             /\ auction.exists
             /\ auction.status # "open" )
           => ( /\ res'.code = 400
                /\ res'.msg = (IF res'.op = "update"
                               THEN "Cannot update auction that is not open"
                               ELSE "Cannot delete auction that is not open")
                /\ auction' = auction )
        /\ (auction.exists /\ auction.isActive /\ ~auction'.isActive)
           => auction.status = "open"
      ]_vars

\* the delete of an active auction with an accepted bid was refused
C17_Witness ==
    /\ res.op = "delete" /\ res.code = 400
    /\ res.msg = "Cannot delete auction that is not open"
    /\ auction.status = "in-progress"
    /\ auction.isActive

\* C18: acceptBid by an account that is not the auction's buyer, whatever its
\* role, is answered 403 "Not authorized to accept bids on this auction" and
\* leaves the auction unchanged.
C18_AcceptByOtherAccountRejected ==
    [][ ( /\ res'.op = "acceptBid"
          /\ auction.exists
          /\ res'.user # auction.buyer )
        => ( /\ res'.code = 403
             /\ res'.msg = "Not authorized to accept bids on this auction"
             /\ auction' = auction )
      ]_vars

\* an administrator asked to accept a pending bid of an open auction and was
\* refused
C18_Witness ==
    /\ res.op = "acceptBid" /\ res.code = 403
    /\ role(res.user) = "admin"
    /\ auction.status = "open"
    /\ \E i \in 1..Len(auction.bids) :
          auction.bids[i].id = res.arg /\ auction.bids[i].status = "pending"

\* C19: a valid submitBid by the buyer of an active, open auction is answered
\* 400 "Cannot bid on your own auction" and changes no bid; and no auction
\* holds a bid whose developer is its buyer.
C19_NoBidOnOwnAuction ==
    [][ /\ ( /\ res'.op = "submitBid"
             /\ validateBid(res'.arg)
             /\ auction.exists /\ auction.isActive
             /\ auction.status = "open"
             /\ res'.user = auction.buyer )
           => ( /\ res'.code = 400
                /\ res'.msg = "Cannot bid on your own auction"
                /\ auction'.bids = auction.bids )
        /\ auction'.exists =>
              \A i \in 1..Len(auction'.bids) :
                  auction'.bids[i].developer # auction'.buyer
      ]_vars

\* C22: every create of an auction succeeds and stores an auction with
\* expiresAt set: the date of the request body, and for a body without one the
\* time of the request plus the default delay of 30 days.
C22_ExpiresAtDefaulted ==
    [][ res'.op = "create" =>
          /\ res'.code = 201
          /\ auction'.exists
          /\ auction'.expiresAt =
                (IF res'.arg = NoDate THEN now + DefaultExpiryDelay ELSE res'.arg)
      ]_vars

\* C23: while the auction is open every one of its bids is pending, and
\* acceptBid is never answered "Bid is not pending".
C23_OpenMeansAllPending ==
    /\ (auction.exists /\ auction.status = "open") =>
          \A i \in 1..Len(auction.bids) : auction.bids[i].status = "pending"
    /\ ~(res.op = "acceptBid" /\ res.msg = "Bid is not pending")

\* an open auction holds two bids, after the buyer asked to accept a bid that
\* does not exist
C23_Witness ==
    /\ auction.exists /\ auction.status = "open"
    /\ Len(auction.bids) = 2
    /\ res.op = "acceptBid" /\ res.user = auction.buyer
    /\ res.code = 400 /\ res.msg = "Bid not found"

\* C24: a submitBid, acceptBid or update request that finds the auction
\* soft-deleted is refused, and no step changes the status, the bids or the
\* acceptedBid of a soft-deleted auction.
C24_SoftDeletedIsFrozen ==
    [][ (auction.exists /\ ~auction.isActive) =>
          /\ res'.op \in {"submitBid", "acceptBid", "update"} => res'.code >= 400
          /\ auction'.status = auction.status
          /\ auction'.bids = auction.bids
          /\ auction'.acceptedBid = auction.acceptedBid
      ]_vars

(* ================= claims about the payment lifecycle ================== *)
CompletedFor(u, appId) ==
    {i \in 1..Len(payments) :
        payments[i].user = u /\ payments[i].app = appId
        /\ payments[i].status = "completed"}

\* C8: for each (user, item) pair at most one payment record is completed.
C8_CompletedUniquePerUserItem ==
    \A u \in Users, appId \in Apps : Cardinality(CompletedFor(u, appId)) <= 1

Occurrences(list, x) == Cardinality({i \in 1..Len(list) : list[i] = x})

\* C9: a successful verify leaves the payment completed and the item exactly
\* once in the caller's purchases; verify sent again with the payload of the
\* successful call, by the same caller, fails with "Payment has already been
\* processed" and leaves the purchases unchanged.
C9_VerifyOnceThenAlreadyProcessed ==
    [][ res'.op = "verify" =>
          LET v == res'.arg
              u == res'.user
              found == {i \in 1..Len(payments) : payments[i].razorpayOrderId = v.orderId}
          IN /\ res'.code = 200 =>
                  \E i \in found :
                      /\ payments[i].status = "pending"
                      /\ payments'[i].status = "completed"
                      /\ Occurrences(purchases'[u], payments[i].app) = 1
             /\ \A i \in found :
                  ( /\ payments[i].status = "completed"
                    /\ payments[i].user = u
                    /\ payments[i].razorpayPaymentId = v.paymentId
                    /\ payments[i].razorpaySignature = v.signature )
                  => ( /\ res'.code = 400
                       /\ res'.msg = "Payment has already been processed"
                       /\ purchases' = purchases
                       /\ payments' = payments )
      ]_vars

\* the retry of a successful verify was refused; the item is there once
C9_Witness ==
    /\ res.op = "verify" /\ res.code = 400
    /\ res.msg = "Payment has already been processed"
    /\ \E i \in 1..Len(payments) :
          /\ payments[i].razorpayOrderId = res.arg.orderId
          /\ payments[i].status = "completed"
          /\ payments[i].user = res.user
          /\ payments[i].razorpayPaymentId = res.arg.paymentId
          /\ payments[i].razorpaySignature = res.arg.signature
          /\ Occurrences(purchases[res.user], payments[i].app) = 1

\* C10: verify called with an order id, a payment id and a signature that is
\* not the HMAC-SHA256 of orderId | paymentId under the key secret fails with
\* "Invalid payment signature", whoever calls and whether or not a record
\* matches, and changes no payment, no purchases and no download counter.
C10_ForgedSignatureRejected ==
    [][ ( /\ res'.op = "verify"
          /\ res'.arg.orderId # <<>> /\ res'.arg.paymentId # <<>>
          /\ res'.arg.signature # <<>>
          /\ res'.arg.signature #
                Hmac(KeySecret, res'.arg.orderId \o <<"|">> \o res'.arg.paymentId) )
        => ( /\ res'.code = 400
             /\ res'.msg = "Invalid payment signature"
             /\ payments' = payments
             /\ purchases' = purchases
             /\ downloads' = downloads )
      ]_vars

\* the owner of a pending payment sent the gateway's signature for another
\* payment id of the same order and was refused
C10_Witness ==
    /\ res.op = "verify" /\ res.code = 400
    /\ res.msg = "Invalid payment signature"
    /\ \E q \in PaymentIdInputs :
          /\ q # res.arg.paymentId
          /\ res.arg.signature = Hmac(KeySecret, res.arg.orderId \o <<"|">> \o q)
    /\ \E i \in 1..Len(payments) :
          /\ payments[i].razorpayOrderId = res.arg.orderId
          /\ payments[i].user = res.user
          /\ payments[i].status = "pending"

\* C14: a verify whose save of the user or of the item rejected leaves the
\* record it had marked completed completed, with the payment id stored; and
\* no step takes a completed payment back to pending.
C14_FollowUpFailureKeepsCompleted ==
    [][ /\ ( /\ res'.op = "verify" /\ res'.code = 500
             /\ res'.error \in {"user", "app"} )
           => \E i \in 1..Len(payments) :
                 /\ payments[i].razorpayOrderId = res'.arg.orderId
                 /\ payments[i].status = "pending"
                 /\ payments'[i].status = "completed"
                 /\ payments'[i].razorpayPaymentId = res'.arg.paymentId
                 /\ payments'[i].completedAt # NoDate
        /\ \A i \in 1..Len(payments) :
              payments[i].status = "completed" => payments'[i].status # "pending"
      ]_vars

\* the save of the user rejected: the caller got 500, the item is not among
\* the purchases, the payment is completed
C14_Witness ==
    /\ res.op = "verify" /\ res.code = 500 /\ res.error = "user"
    /\ purchases[res.user] = <<>>
    /\ \E i \in 1..Len(payments) :
          /\ payments[i].razorpayOrderId = res.arg.orderId
          /\ payments[i].user = res.user
          /\ payments[i].status = "completed"

\* C15: a verify step that marks a payment completed answers 200, and when it
\* leaves the item out of the caller's purchases (the registration failed) it
\* has still incremented the item's download counter.
C15_FollowUpFailureNonFatal ==
    [][ res'.op = "verify" =>
          \A i \in 1..Len(payments) :
              (payments[i].status = "pending" /\ payments'[i].status = "completed")
              => /\ res'.code = 200
                 /\ ~includes(purchases'[res'.user], payments[i].app)
                       => downloads'[payments[i].app] = downloads[payments[i].app] + 1
      ]_vars

\* C16: createOrder by a user for an item for which that user has a completed
\* payment is answered 400 "You have already purchased this app"; it creates
\* no gateway order and no payment record and changes no payment record.
C16_AlreadyPurchasedRejected ==
    [][ ( /\ res'.op = "createOrder"
          /\ CompletedFor(res'.user, res'.arg) # {} )
        => ( /\ res'.code = 400
             /\ res'.msg = "You have already purchased this app"
             /\ gatewayOrders' = gatewayOrders
             /\ payments' = payments )
      ]_vars

\* the owner of a completed payment ordered the item again and was refused
C16_Witness ==
    /\ res.op = "createOrder" /\ res.code = 400
    /\ res.msg = "You have already purchased this app"
    /\ CompletedFor(res.user, res.arg) # {}
    /\ Len(payments) = gatewayOrders

\* C20: verify with all three fields and the gateway's signature for them,
\* called by an account that is not the user of the record with that order
\* id, is answered 403 "Not authorized to verify this payment" and changes no
\* payment, no purchases and no download counter.
C20_VerifyByOtherAccountRejected ==
    [][ ( /\ res'.op = "verify"
          /\ res'.arg.orderId # <<>> /\ res'.arg.paymentId # <<>>
          /\ res'.arg.signature =
                Hmac(KeySecret, res'.arg.orderId \o <<"|">> \o res'.arg.paymentId)
          /\ \E i \in 1..Len(payments) :
                /\ payments[i].razorpayOrderId = res'.arg.orderId
                /\ payments[i].user # res'.user )
        => ( /\ res'.code = 403
             /\ res'.msg = "Not authorized to verify this payment"
             /\ payments' = payments
             /\ purchases' = purchases
             /\ downloads' = downloads )
      ]_vars

\* another account sent the gateway's signature for a pending payment and was
\* refused; the payment is still pending and its owner has no purchase
C20_Witness ==
    /\ res.op = "verify" /\ res.code = 403
    /\ res.arg.signature =
          Hmac(KeySecret, res.arg.orderId \o <<"|">> \o res.arg.paymentId)
    /\ \E i \in 1..Len(payments) :
          /\ payments[i].razorpayOrderId = res.arg.orderId
          /\ payments[i].user # res.user
          /\ payments[i].status = "pending"
          /\ purchases[payments[i].user] = <<>>
          /\ downloads[payments[i].app] = 0

\* the status changes the lifecycle allows
StatusMoves ==
    {<<"pending", "completed">>, <<"pending", "failed">>, <<"completed", "refunded">>}

C12_RefundedOnce ==
    [][ res'.op = "refund" =>
          LET k == res'.arg.paymentId IN
          /\ res'.code = 200 =>
                (payments[k].status = "completed" /\ payments'[k].status = "refunded")
          /\ (k <= Len(payments) /\ payments[k].status = "refunded") =>
                /\ res'.code # 200
                /\ gatewayRefunds' = gatewayRefunds
                /\ payments' = payments
                /\ ( /\ role(res'.user) = "admin"
                     /\ res'.arg.amount # 0 /\ res'.arg.reason # "" )
                   => ( /\ res'.code = 400
                        /\ res'.msg = "Only completed payments can be refunded" )
      ]_vars

\* an administrator asked for a second refund, of another amount, and was
\* refused; the gateway was called once for that payment
C12_Witness ==
    /\ res.op = "refund" /\ res.code = 400
    /\ res.msg = "Only completed payments can be refunded"
    /\ res.arg.paymentId <= Len(payments)
    /\ payments[res.arg.paymentId].status = "refunded"
    /\ payments[res.arg.paymentId].refundAmount # res.arg.amount
    /\ gatewayRefunds[res.arg.paymentId].calls = 1

RefundRecorded(p) ==
    p.refundAmount # 0 /\ p.refundReason # Absent /\ p.refundedAt # NoDate

RefundBlank(p) ==
    p.refundAmount = 0 /\ p.refundReason = Absent /\ p.refundedAt = NoDate

\* C13: a refund request whose call to the gateway fails is answered with a
\* failure and changes no payment; a record is refunded, with refundAmount,
\* refundReason and refundedAt recorded, only if the gateway has carried out
\* a refund for it, and a record that is not refunded has no refund field set.
C13_RefundAfterGatewaySuccess ==
    [][ /\ \A i \in 1..Len(payments) :
              ( /\ gatewayRefunds'[i].calls = gatewayRefunds[i].calls + 1
                /\ gatewayRefunds'[i].refunded = gatewayRefunds[i].refunded )
              => ( /\ res'.op = "refund" /\ res'.code >= 400
                   /\ payments' = payments )
        /\ \A i \in 1..Len(payments') :
              IF payments'[i].status = "refunded"
              THEN gatewayRefunds'[i].refunded >= 1 /\ RefundRecorded(payments'[i])
              ELSE RefundBlank(payments'[i])
      ]_vars

\* the gateway refused the refund of a completed payment: the administrator
\* got a failure and the record is as it was
C13_Witness ==
    /\ res.op = "refund" /\ res.code = 500
    /\ res.arg.paymentId <= Len(payments)
    /\ payments[res.arg.paymentId].status = "completed"
    /\ RefundBlank(payments[res.arg.paymentId])
    /\ gatewayRefunds[res.arg.paymentId].calls = 1
    /\ gatewayRefunds[res.arg.paymentId].refunded = 0

\* C27: for each payment record the gateway has carried out at most one
\* refund.
C27_GatewayRefundsOnce ==
    \A k \in 1..MaxOrders : gatewayRefunds[k].refunded <= 1

\* C28: every refunded payment has 0 < refundAmount <= amount, and a refund
\* request for more than the payment's amount is refused and changes no
\* payment.
C28_RefundWithinAmount ==
    [][ /\ \A i \in 1..Len(payments') :
              payments'[i].status = "refunded" =>
                  ( /\ 0 < payments'[i].refundAmount
                    /\ payments'[i].refundAmount <= payments'[i].amount )
        /\ ( /\ res'.op = "refund"
             /\ res'.arg.paymentId <= Len(payments)
             /\ res'.arg.amount > payments[res'.arg.paymentId].amount )
           => ( /\ res'.code >= 400
                /\ payments' = payments )
      ]_vars

\* C29: every call of protect has exactly one outcome: it sends one 401
\* response and the request goes no further, or it sends nothing and passes
\* the request of an active account on to the next function of the stack;
\* never two responses, never a response together with next
C29_ProtectOneOutcome ==
    [][ (req.scheduled /\ Current = "protect") =>
          \/ /\ req'.responses = req.responses + 1
             /\ ~req'.scheduled
             /\ req'.idx = req.idx
             /\ res'.code = 401
             /\ req.auth # "valid"
          \/ /\ req'.responses = req.responses
             /\ req'.scheduled
             /\ req'.idx = req.idx + 1
             /\ req.auth = "valid"
             /\ res' = res
      ]_vars

\* a request whose header is 'Bearer' without a token has been answered once,
\* by the catch block, and has not been passed on
C29_Witness ==
    /\ req # NoReq
    /\ req.auth \in {"bearerOnly", "emptyToken"}
    /\ ~req.scheduled
    /\ req.idx = 1
    /\ req.responses = 1
    /\ res.code = 401
    /\ res.msg = "Not authorized, token failed"

\* C30: every item in a user's purchases is backed by a payment record of
\* that user for that item with status completed or refunded.
C30_PurchasesArePaid ==
    \A u \in Users : \A i \in 1..Len(purchases[u]) :
        \E k \in 1..Len(payments) :
            /\ payments[k].user = u
            /\ payments[k].app = purchases[u][i]
            /\ payments[k].status \in {"completed", "refunded"}

\* C21: the stored view counter of the auction never decreases, whatever the
\* interleaving of the reads and writes of concurrent read-by-id requests.
C21_ViewsNeverDecrease == [][views' >= views]_vars

\* the acceptBid calls that reported success
AcceptSuccesses ==
    {i \in 1..MaxFlights :
        /\ flights[i].pc = "done"
        /\ flights[i].op = "acceptBid"
        /\ flights[i].code = 200}

\* C25: once acceptedBid is set it never changes and the auction never is
\* open again, and at most one acceptBid call reports success, whatever the
\* interleaving of the reads and writes of acceptBid and submitBid requests.
C25_AcceptedOnce ==
    [][ /\ (auction.exists /\ auction.acceptedBid # Absent) =>
              /\ auction'.acceptedBid = auction.acceptedBid
              /\ auction'.status # "open"
        /\ Cardinality(AcceptSuccesses') <= 1
      ]_vars

\* the verify calls on record k that reported success
VerifySuccesses(k) ==
    {i \in 1..MaxFlights :
        /\ flights[i].pc = "done"
        /\ flights[i].op = "verify"
        /\ flights[i].code = 200
        /\ flights[i].k = k}

\* the payment records of an item that have been verified
VerifiedRecords(a) ==
    {k \in 1..Len(payments) : payments[k].app = a /\ payments[k].status # "pending"}

\* C26: at most one verify call per payment record reports success, and the
\* download counter of an item is incremented at most once per record, also
\* when verify calls read the record before either of them writes it.
C26_VerifiedOnce ==
    /\ \A k \in 1..MaxOrders : Cardinality(VerifySuccesses(k)) <= 1
    /\ \A a \in Apps : downloads[a] <= Cardinality(VerifiedRecords(a))

====
